---- MODULE Spec2Model ----
(***************************************************************************)
(* LDAPLynx (src/ldaplynx.py): the LDIF parser parse_ldif, the attribute   *)
(* detector and the LDIFConsole command handlers.                          *)
(*                                                                         *)
(* Text is modelled as a sequence of symbols.  A symbol is a run of        *)
(* characters that contains neither a colon, a comma nor white space       *)
(* ("member", "Uid", "inetOrgPerson", "u1"), or one of the separators     *)
(* ":", "," and " ".  The attribute name memberUid is the two symbols      *)
(* "member","Uid", so that member is a proper prefix of memberUid and of   *)
(* memberOf, as it is character by character.  A document is the sequence  *)
(* of its lines (the result of str.splitlines).                            *)
(***************************************************************************)
EXTENDS Integers, Sequences, FiniteSets, TLC

\* ------------------------------------------------------------------ bounds
\* lines of a document scanned by parse_ldif
MaxLines == 4
\* lines of a document given to detect_membership_attributes
MaxDetectLines == 3
\* lines of a document parse_ldif is called on twice
MaxRunLines == 3

\* ------------------------------------------------------- string primitives
SP == " "
COLON == ":"
COMMA == ","

\* Python None where a string is expected (current_dn, dict.get default).
None == <<"<None>">>
\* Python None for current_type.
NoType == "None"

\* str.strip(): drop leading and trailing white space.
RECURSIVE LStrip(_)
LStrip(s) == IF s # <<>> /\ Head(s) = SP THEN LStrip(Tail(s)) ELSE s

RECURSIVE RStrip(_)
RStrip(s) == IF s # <<>> /\ s[Len(s)] = SP THEN RStrip(SubSeq(s, 1, Len(s) - 1)) ELSE s

Strip(s) == RStrip(LStrip(s))

\* str.startswith(prefix)
StartsWith(s, prefix) == Len(prefix) <= Len(s) /\ SubSeq(s, 1, Len(prefix)) = prefix

\* the `in` operator on strings: sub occurs somewhere in s
Contains(s, sub) == \E i \in 1..(Len(s) - Len(sub) + 1) : SubSeq(s, i, i + Len(sub) - 1) = sub

\* ":" in line
HasColon(s) == \E i \in 1..Len(s) : s[i] = COLON

\* position of the first colon (only used when HasColon)
FirstColon(s) == CHOOSE i \in 1..Len(s) : s[i] = COLON /\ \A j \in 1..(i - 1) : s[j] # COLON

\* line.split(":", 1)[0]
SplitHead(s) == IF HasColon(s) THEN SubSeq(s, 1, FirstColon(s) - 1) ELSE s

\* line.split(":", 1)[1]  (an IndexError in Python when there is no colon)
SplitTail(s) == SubSeq(s, FirstColon(s) + 1, Len(s))

\* line.split(":", 1)[1].strip()
ValueOf(line) == Strip(SplitTail(line))

\* f"{attr}:"
WithColon(attr) == Append(attr, COLON)

\* truthiness of a str-or-None value: None and "" are falsy
Truthy(v) == v # None /\ v # <<>>

\* --------------------------------------------------------- attribute names
member == <<"member">>
memberUid == <<"member", "Uid">>
memberOf == <<"member", "Of">>
uniqueMember == <<"uniqueMember">>
isMemberOf == <<"isMemberOf">>
dnAttr == <<"dn">>
objectClassAttr == <<"objectClass">>
uidAttr == <<"uid">>
cnAttr == <<"cn">>

\* ---------------------------------------------------------------- parse_ldif
\* "inetOrgPerson" in line or "posixAccount" in line
IsUserClass(line) == Contains(line, <<"inetOrgPerson">>) \/ Contains(line, <<"posixAccount">>)

\* "groupOfNames" in line or "posixGroup" in line or "groupOfMembers" in line
IsGroupClass(line) ==
    \/ Contains(line, <<"groupOfNames">>)
    \/ Contains(line, <<"posixGroup">>)
    \/ Contains(line, <<"groupOfMembers">>)

\* the branch of the if/elif chain that a stripped line takes
Branch(line, type) ==
    IF StartsWith(line, WithColon(dnAttr)) THEN "dn"
    ELSE IF StartsWith(line, WithColon(objectClassAttr)) THEN "objectClass"
    ELSE IF StartsWith(line, WithColon(uidAttr)) /\ type = "User" THEN "uid"
    ELSE IF StartsWith(line, WithColon(cnAttr)) /\ type = "Group" THEN "cn"
    ELSE "else"

\* (mutant) the first classification of an entry sticks
ObjectClassType_FirstWins(line, type) ==
    IF type # NoType THEN type
    ELSE IF IsUserClass(line) THEN "User"
    ELSE IF IsGroupClass(line) THEN "Group"
    ELSE type

\* body of the objectClass branch: the new current_type
ObjectClassType(line, type) ==
    IF IsUserClass(line) THEN "User"
    ELSE IF IsGroupClass(line) THEN "Group"
    ELSE type

\* uid_to_dn.get(member_value, None)
DictGet(table, key) == IF key \in DOMAIN table THEN table[key] ELSE None

\* the member_dn computed for one matching attribute
MemberDn(attr, line, table) ==
    IF attr = memberUid THEN DictGet(table, ValueOf(line)) ELSE ValueOf(line)

\* (mutant) the edge is appended as (entry dn, member dn)
RECURSIVE MembershipEdges_Swapped(_, _, _, _)
MembershipEdges_Swapped(attrs, line, dn, table) ==
    IF attrs = <<>> THEN <<>>
    ELSE LET attr == Head(attrs)
             rest == MembershipEdges_Swapped(Tail(attrs), line, dn, table)
         IN  IF StartsWith(line, WithColon(attr)) /\ Truthy(MemberDn(attr, line, table))
             THEN <<(<<dn, MemberDn(attr, line, table), "memberOf">>)>> \o rest
             ELSE rest

\* the inner loop `for attr in membership_attributes`: the edges appended for one line
RECURSIVE MembershipEdges(_, _, _, _)
MembershipEdges(attrs, line, dn, table) ==
    IF attrs = <<>> THEN <<>>
    ELSE LET attr == Head(attrs)
             rest == MembershipEdges(Tail(attrs), line, dn, table)
         IN  IF StartsWith(line, WithColon(attr)) /\ Truthy(MemberDn(attr, line, table))
             THEN <<(<<MemberDn(attr, line, table), dn, "memberOf">>)>> \o rest
             ELSE rest

\* the locals of parse_ldif before the loop
ScanInit == [current_dn |-> None, current_type |-> NoType, uid_to_dn |-> <<>>,
             nodes |-> {}, edges |-> <<>>]

\* (mutant) a dn line leaves the running type as it is
ScanLine_KeepsType(st, raw, attrs) ==
    LET line == Strip(raw)
        b == Branch(line, st.current_type)
    IN  CASE b = "dn" -> [st EXCEPT !.current_dn = ValueOf(line)]
          [] b = "objectClass" -> [st EXCEPT !.current_type = ObjectClassType(line, st.current_type)]
          [] b = "uid" -> [st EXCEPT !.nodes = @ \cup {<<st.current_dn, ValueOf(line), st.current_type>>}]
          [] b = "cn" -> [st EXCEPT !.nodes = @ \cup {<<st.current_dn, ValueOf(line), st.current_type>>}]
          [] OTHER -> [st EXCEPT !.edges = @ \o MembershipEdges(attrs, line, st.current_dn, st.uid_to_dn)]

\* those of the edges es that are not among the edges seen
RECURSIVE NewEdges(_, _)
NewEdges(es, seen) ==
    IF es = <<>> THEN <<>>
    ELSE IF \E i \in 1..Len(seen) : seen[i] = Head(es)
         THEN NewEdges(Tail(es), seen)
         ELSE <<Head(es)>> \o NewEdges(Tail(es), Append(seen, Head(es)))

\* (mutant) an edge that is already in the list is not appended again
ScanLine_Dedup(st, raw, attrs) ==
    LET line == Strip(raw)
        b == Branch(line, st.current_type)
    IN  CASE b = "dn" -> [st EXCEPT !.current_dn = ValueOf(line), !.current_type = NoType]
          [] b = "objectClass" -> [st EXCEPT !.current_type = ObjectClassType(line, st.current_type)]
          [] b = "uid" -> [st EXCEPT !.nodes = @ \cup {<<st.current_dn, ValueOf(line), st.current_type>>}]
          [] b = "cn" -> [st EXCEPT !.nodes = @ \cup {<<st.current_dn, ValueOf(line), st.current_type>>}]
          [] OTHER -> [st EXCEPT !.edges =
                            @ \o NewEdges(MembershipEdges(attrs, line, st.current_dn, st.uid_to_dn), @)]

\* (mutant) a uid or cn line whose name is configured is read as a membership
\* line, not as a label
ScanLine_MembersFirst(st, raw, attrs) ==
    LET line == Strip(raw)
        b == Branch(line, st.current_type)
        configured == \E i \in 1..Len(attrs) : StartsWith(line, WithColon(attrs[i]))
    IN  CASE b = "dn" -> [st EXCEPT !.current_dn = ValueOf(line), !.current_type = NoType]
          [] b = "objectClass" -> [st EXCEPT !.current_type = ObjectClassType(line, st.current_type)]
          [] b \in {"uid", "cn"} /\ ~configured ->
                [st EXCEPT !.nodes = @ \cup {<<st.current_dn, ValueOf(line), st.current_type>>}]
          [] OTHER -> [st EXCEPT !.edges = @ \o MembershipEdges(attrs, line, st.current_dn, st.uid_to_dn)]

\* one iteration of the loop over ldif_content.splitlines()
ScanLine(st, raw, attrs) ==
    LET line == Strip(raw)
        b == Branch(line, st.current_type)
    IN  CASE b = "dn" -> [st EXCEPT !.current_dn = ValueOf(line), !.current_type = NoType]
          [] b = "objectClass" -> [st EXCEPT !.current_type = ObjectClassType(line, st.current_type)]
          [] b = "uid" -> [st EXCEPT !.nodes = @ \cup {<<st.current_dn, ValueOf(line), st.current_type>>}]
          [] b = "cn" -> [st EXCEPT !.nodes = @ \cup {<<st.current_dn, ValueOf(line), st.current_type>>}]
          [] OTHER -> [st EXCEPT !.edges = @ \o MembershipEdges(attrs, line, st.current_dn, st.uid_to_dn)]

\* the whole loop
RECURSIVE ScanAll(_, _, _)
ScanAll(st, lines, attrs) ==
    IF lines = <<>> THEN st ELSE ScanAll(ScanLine(st, Head(lines), attrs), Tail(lines), attrs)

\* list(nodes): the elements of a set in some order
Orderings(S) == {f \in [1..Cardinality(S) -> S] : \A i, j \in 1..Cardinality(S) : i # j => f[i] # f[j]}

\* elements of a list, as a set
Range(f) == {f[i] : i \in DOMAIN f}

\* parse_ldif(ldif_content, membership_attributes): the pairs it may return
parse_ldif(content, attrs) ==
    LET st == ScanAll(ScanInit, content, attrs)
    IN  {[nodes |-> order, edges |-> st.edges] : order \in Orderings(st.nodes)}

\* ------------------------------------------------------------ LDIFConsole
\* self.ldif_content = None
NoContent == <<None>>

\* `not self.ldif_content`: None or the empty text
ContentMissing(content) == content = NoContent \/ content = <<>>

\* common_attributes in detect_membership_attributes
common_attributes == {member, memberUid, uniqueMember, isMemberOf, memberOf}

\* (mutant) a name is detected when the line starts with it
DetectLine_Prefix(acc, raw) ==
    LET line == Strip(raw)
    IN  IF HasColon(line)
        THEN acc \cup {a \in common_attributes : StartsWith(line, a)}
        ELSE acc

\* one iteration of the loop of detect_membership_attributes
DetectLine(acc, raw) ==
    LET line == Strip(raw)
    IN  IF HasColon(line) /\ SplitHead(line) \in common_attributes
        THEN acc \cup {SplitHead(line)}
        ELSE acc

RECURSIVE DetectAll(_, _)
DetectAll(acc, lines) ==
    IF lines = <<>> THEN acc ELSE DetectAll(DetectLine(acc, Head(lines)), Tail(lines))

\* detect_membership_attributes: the lists list(detected_attributes) may be
detect_membership_attributes(content) ==
    IF ContentMissing(content) THEN {<<>>} ELSE Orderings(DetectAll({}, content))

\* one iteration of the loop of get_group_entries
GroupLine(g, raw, attrs) ==
    LET line == Strip(raw)
    IN  IF StartsWith(line, WithColon(dnAttr))
        THEN [group_entries |-> IF g.inside_group
                                THEN Append(g.group_entries, [dn |-> g.current_dn, members |-> g.members])
                                ELSE g.group_entries,
              current_dn |-> ValueOf(line), members |-> <<>>, inside_group |-> FALSE]
        ELSE IF \E i \in 1..Len(attrs) : StartsWith(line, WithColon(attrs[i]))
        THEN [g EXCEPT !.inside_group = TRUE, !.members = Append(@, ValueOf(line))]
        ELSE g

RECURSIVE GroupAll(_, _, _)
GroupAll(g, lines, attrs) ==
    IF lines = <<>> THEN g ELSE GroupAll(GroupLine(g, Head(lines), attrs), Tail(lines), attrs)

\* (mutant) the entry that is open at the end of the text is not appended
get_group_entries_NoFinalAppend(content, attrs) ==
    LET g == GroupAll([group_entries |-> <<>>, current_dn |-> None, members |-> <<>>,
                       inside_group |-> FALSE], content, attrs)
    IN  g.group_entries

\* get_group_entries(membership_attributes)
get_group_entries(content, attrs) ==
    LET g == GroupAll([group_entries |-> <<>>, current_dn |-> None, members |-> <<>>,
                       inside_group |-> FALSE], content, attrs)
    IN  IF g.inside_group
        THEN Append(g.group_entries, [dn |-> g.current_dn, members |-> g.members])
        ELSE g.group_entries

\* current_entry[0].split(":", 1)[1] raises IndexError: the first line kept in
\* current_entry has no colon
EntryHeadRaises(current_entry) == current_entry # <<>> /\ ~HasColon(current_entry[1])

\* current_entry and current_entry[0].split(":", 1)[1].strip() == group_dn
EntryHeadIs(current_entry, group_dn) == current_entry # <<>> /\ ValueOf(current_entry[1]) = group_dn

\* one iteration of the loop of view_group; status is "scan", "break" or "raise"
ViewGroupLine(v, raw, group_dn) ==
    LET line == Strip(raw)
    IN  IF v.status # "scan" THEN v
        ELSE IF StartsWith(line, WithColon(dnAttr))
        THEN IF EntryHeadRaises(v.current_entry) THEN [v EXCEPT !.status = "raise"]
             ELSE IF EntryHeadIs(v.current_entry, group_dn) THEN [v EXCEPT !.status = "break"]
             ELSE [v EXCEPT !.current_entry = <<line>>]
        ELSE [v EXCEPT !.current_entry = Append(@, line)]

RECURSIVE ViewGroupAll(_, _, _)
ViewGroupAll(v, lines, group_dn) ==
    IF lines = <<>> THEN v ELSE ViewGroupAll(ViewGroupLine(v, Head(lines), group_dn), Tail(lines), group_dn)

\* view_group(group_dn): the message it prints, or the exception it raises
view_group(content, group_dn) ==
    IF ContentMissing(content) THEN "no_file"
    ELSE LET v == ViewGroupAll([status |-> "scan", current_entry |-> <<>>], content, group_dn)
         IN  IF v.status = "raise" THEN "IndexError"
             ELSE IF EntryHeadRaises(v.current_entry) THEN "IndexError"
             ELSE IF v.status = "break" \/ EntryHeadIs(v.current_entry, group_dn) THEN "group"
             ELSE "group_not_found"

\* str.split(","): the pieces between the commas
RECURSIVE SplitComma(_)
SplitComma(text) ==
    IF \E i \in 1..Len(text) : text[i] = COMMA
    THEN LET i == CHOOSE i \in 1..Len(text) : text[i] = COMMA /\ \A j \in 1..(i - 1) : text[j] # COMMA
         IN  <<SubSeq(text, 1, i - 1)>> \o SplitComma(SubSeq(text, i + 1, Len(text)))
    ELSE <<text>>

\* f"{dn}" of a str-or-None value
Str(v) == IF v = None THEN <<"None">> ELSE v

QUOTE == "\""

\* the row export writes for a node and for an edge
NodeRow(n) == <<QUOTE>> \o Str(n[1]) \o <<QUOTE, COMMA, QUOTE>> \o Str(n[2])
                \o <<QUOTE, COMMA, QUOTE, n[3], QUOTE>>
EdgeRow(e) == <<QUOTE>> \o Str(e[1]) \o <<QUOTE, COMMA, QUOTE>> \o Str(e[2])
                \o <<QUOTE, COMMA, QUOTE, e[3], QUOTE>>

\* the two files export writes
NodesTable(ns) == <<(<<"Id", COMMA, "Label", COMMA, "Type">>)>> \o [i \in 1..Len(ns) |-> NodeRow(ns[i])]
EdgesTable(es) == <<(<<"Source", COMMA, "Target", COMMA, "Relation">>)>> \o [i \in 1..Len(es) |-> EdgeRow(es[i])]

\* load typed without an argument (file_path is None)
NoPath == "<None>"

\* no file written yet
NoExport == [nodes_file |-> <<>>, edges_file |-> <<>>]

\* ------------------------------------------------------------------ state
VARIABLES
    ldif_content,           \* self.ldif_content / the ldif_content argument of parse_ldif
    membership_attributes,  \* self.membership_attributes / the argument of parse_ldif
    pc,                     \* position in parse_ldif: "scan" in the loop, "done" after return
    current_dn, current_type, uid_to_dn, nodes, edges,   \* locals of parse_ldif
    result,                 \* the pair returned by parse_ldif
    self_nodes, self_edges, \* self.nodes, self.edges
    out,                    \* the last message the console printed
    exported,               \* the files written by the last successful export
    parse_completed,        \* parse_ldif has returned to LDIFConsole.parse at least once
    detected_attributes,    \* the list returned by detect_membership_attributes
    group_entries,          \* the list returned by get_group_entries
    cmd                     \* cmd in LDIFConsole.run: the command being dispatched

parseVars == <<pc, current_dn, current_type, uid_to_dn, nodes, edges, result>>
consoleVars == <<self_nodes, self_edges, out, exported, parse_completed, cmd>>
detectVars == <<detected_attributes, group_entries>>
\* the locals and the return value of parse_ldif
parseVarsLocal == <<current_dn, current_type, uid_to_dn, nodes, edges, result>>

vars == <<ldif_content, membership_attributes, pc,
          current_dn, current_type, uid_to_dn, nodes, edges, result,
          self_nodes, self_edges, out, exported, parse_completed, detected_attributes,
          group_entries, cmd>>

\* ------------------------------------------------------------------ inputs
L_dn_u1 == <<"dn", COLON, SP, "u1">>
L_dn_g1 == <<"dn", COLON, SP, "g1">>
L_oc_user == <<"objectClass", COLON, SP, "inetOrgPerson">>
L_oc_group == <<"objectClass", COLON, SP, "posixGroup">>
L_oc_top == <<"objectClass", COLON, SP, "top">>
L_uid == <<"uid", COLON, SP, "alice">>
L_uid_bob == <<"uid", COLON, "bob">>
L_uid_empty == <<"uid", COLON, SP>>
L_cn == <<SP, "cn", COLON, SP, "admins", SP>>
L_member == <<"member", COLON, SP, "u1">>
L_memberUid == <<"member", "Uid", COLON, SP, "alice">>
L_noname == <<COLON, SP, "u1">>

\* the lines a scanned document is made of
LinePool == {L_dn_u1, L_dn_g1, L_oc_user, L_oc_group, L_oc_top, L_uid, L_uid_empty, L_cn,
             L_member, L_memberUid, L_noname}

\* the attribute lists parse_ldif is called with: the constructor's default, and
\* the list that set_attrs makes of "uid,,cn"
AttrLists == {<<member, memberUid>>, <<uidAttr, <<>>, cnAttr>>}

\* ------------------------------------------------ parse_ldif, line by line
Locals == [current_dn |-> current_dn, current_type |-> current_type, uid_to_dn |-> uid_to_dn,
           nodes |-> nodes, edges |-> edges]

InitParse ==
    /\ ldif_content = <<>>
    /\ membership_attributes \in AttrLists
    /\ pc = "scan"
    /\ current_dn = ScanInit.current_dn
    /\ current_type = ScanInit.current_type
    /\ uid_to_dn = ScanInit.uid_to_dn
    /\ nodes = ScanInit.nodes
    /\ edges = ScanInit.edges
    /\ result = [nodes |-> <<>>, edges |-> <<>>]
    /\ self_nodes = <<>>
    /\ self_edges = <<>>
    /\ out = "none"
    /\ exported = NoExport
    /\ parse_completed = FALSE
    /\ detected_attributes = <<>>
    /\ group_entries = <<>>
    /\ cmd = "none"

\* the loop has a next line
MoreLines == pc = "scan" /\ Len(ldif_content) < MaxLines

\* the loop body runs on the next line, raw
Iterate(raw) ==
    /\ \E st \in {ScanLine(Locals, raw, membership_attributes)} :
           /\ current_dn' = st.current_dn
           /\ current_type' = st.current_type
           /\ uid_to_dn' = st.uid_to_dn
           /\ nodes' = st.nodes
           /\ edges' = st.edges
    /\ ldif_content' = Append(ldif_content, raw)
    /\ UNCHANGED <<membership_attributes, pc, result, consoleVars, detectVars>>

DnLine ==
    /\ MoreLines
    /\ \E raw \in LinePool :
        /\ Branch(Strip(raw), current_type) = "dn"
        /\ Iterate(raw)

ObjectClassLine ==
    /\ MoreLines
    /\ \E raw \in LinePool :
        /\ Branch(Strip(raw), current_type) = "objectClass"
        /\ Iterate(raw)

UidLine ==
    /\ MoreLines
    /\ \E raw \in LinePool :
        /\ Branch(Strip(raw), current_type) = "uid"
        /\ Iterate(raw)

CnLine ==
    /\ MoreLines
    /\ \E raw \in LinePool :
        /\ Branch(Strip(raw), current_type) = "cn"
        /\ Iterate(raw)

OtherLine ==
    /\ MoreLines
    /\ \E raw \in LinePool :
        /\ Branch(Strip(raw), current_type) = "else"
        /\ Iterate(raw)

\* return list(nodes), edges
ParseReturn ==
    /\ pc = "scan"
    /\ pc' = "done"
    /\ \E order \in Orderings(nodes) : result' = [nodes |-> order, edges |-> edges]
    /\ UNCHANGED <<ldif_content, membership_attributes,
                   current_dn, current_type, uid_to_dn, nodes, edges, consoleVars, detectVars>>

NextParse == DnLine \/ ObjectClassLine \/ UidLine \/ CnLine \/ OtherLine \/ ParseReturn

SpecParse == InitParse /\ [][NextParse]_vars

\* ------------------------------------------- parse_ldif, called repeatedly
\* the documents parse_ldif is called on
RunDocs == UNION {[1..n -> LinePool] : n \in 0..MaxRunLines}

\* the attribute lists it is called with: those of AttrLists and one that
\* names the attributes the classifier reads
RunAttrLists == AttrLists \cup {<<objectClassAttr, dnAttr>>}

InitRerun ==
    /\ ldif_content \in RunDocs
    /\ membership_attributes \in RunAttrLists
    /\ pc = "call"
    /\ current_dn = ScanInit.current_dn
    /\ current_type = ScanInit.current_type
    /\ uid_to_dn = ScanInit.uid_to_dn
    /\ nodes = ScanInit.nodes
    /\ edges = ScanInit.edges
    /\ result = [nodes |-> <<>>, edges |-> <<>>]
    /\ self_nodes = <<>>
    /\ self_edges = <<>>
    /\ out = "none"
    /\ exported = NoExport
    /\ parse_completed = FALSE
    /\ detected_attributes = <<>>
    /\ group_entries = <<>>
    /\ cmd = "none"

\* (mutant) the locals of the earlier call are still there at entry
ParseLdifCall_KeepsLocals(attrs) ==
    \E st \in {ScanAll(Locals, ldif_content, attrs)} :
        /\ current_dn' = st.current_dn
        /\ current_type' = st.current_type
        /\ uid_to_dn' = st.uid_to_dn
        /\ nodes' = st.nodes
        /\ edges' = st.edges
        /\ \E order \in Orderings(st.nodes) : result' = [nodes |-> order, edges |-> st.edges]

\* one call parse_ldif(ldif_content, attrs), from entry to return: the locals
\* are created at entry (lines 307-312), whatever an earlier call left
ParseLdifCall(attrs) ==
    \E st \in {ScanAll(ScanInit, ldif_content, attrs)} :
        /\ current_dn' = st.current_dn
        /\ current_type' = st.current_type
        /\ uid_to_dn' = st.uid_to_dn
        /\ nodes' = st.nodes
        /\ edges' = st.edges
        /\ \E order \in Orderings(st.nodes) : result' = [nodes |-> order, edges |-> st.edges]

\* the first call
FirstCall ==
    /\ pc = "call"
    /\ pc' = "returned"
    /\ ParseLdifCall(membership_attributes)
    /\ UNCHANGED <<ldif_content, membership_attributes, consoleVars, detectVars>>

\* a second call on the same document with the same attribute list
CallAgain ==
    /\ pc = "returned"
    /\ pc' = "again"
    /\ ParseLdifCall(membership_attributes)
    /\ UNCHANGED <<ldif_content, membership_attributes, consoleVars, detectVars>>

\* a second call on the same document with another attribute list
CallWithOtherAttributes ==
    /\ pc = "returned"
    /\ pc' = "other"
    /\ \E attrs \in RunAttrLists \ {membership_attributes} :
            /\ membership_attributes' = attrs
            /\ ParseLdifCall(attrs)
    /\ UNCHANGED <<ldif_content, consoleVars, detectVars>>

NextRerun == FirstCall \/ CallAgain \/ CallWithOtherAttributes

SpecRerun == InitRerun /\ [][NextRerun]_vars

\* --------------------------------------------- detect_membership_attributes
D_member == <<"member", COLON, SP, "u1">>
D_memberUid == <<"member", "Uid", COLON, SP, "alice">>
D_memberOf == <<SP, "member", "Of", COLON, SP, "g1">>
D_uniqueMember == <<"uniqueMember", COLON, SP, "u1">>
D_isMemberOf == <<"isMemberOf", COLON, "g1">>
D_nocolon == <<"member">>
D_spaced == <<"member", SP, COLON, SP, "u1">>
D_invalue == <<"cn", COLON, SP, "member", COLON, "u1">>
D_dn == <<"dn", COLON, SP, "g1">>

\* the lines a document given to the detector is made of
DetectPool == {D_member, D_memberUid, D_memberOf, D_uniqueMember, D_isMemberOf,
               D_nocolon, D_spaced, D_invalue, D_dn}

DetectDocs == UNION {[1..n -> DetectPool] : n \in 0..MaxDetectLines} \cup {NoContent}

InitDetect ==
    /\ ldif_content \in DetectDocs
    /\ membership_attributes = <<member, memberUid>>
    /\ pc = "detect"
    /\ current_dn = ScanInit.current_dn
    /\ current_type = ScanInit.current_type
    /\ uid_to_dn = ScanInit.uid_to_dn
    /\ nodes = ScanInit.nodes
    /\ edges = ScanInit.edges
    /\ result = [nodes |-> <<>>, edges |-> <<>>]
    /\ self_nodes = <<>>
    /\ self_edges = <<>>
    /\ out = "none"
    /\ exported = NoExport
    /\ parse_completed = FALSE
    /\ detected_attributes = <<>>
    /\ group_entries = <<>>
    /\ cmd = "none"

\* detected_attributes = self.detect_membership_attributes()
DetectMembershipAttributes ==
    /\ pc = "detect"
    /\ pc' = "detected"
    /\ detected_attributes' \in detect_membership_attributes(ldif_content)
    /\ UNCHANGED <<ldif_content, membership_attributes, current_dn, current_type, uid_to_dn,
                   nodes, edges, result, consoleVars, group_entries>>

\* if detected_attributes: group_entries = self.get_group_entries(detected_attributes)
GetGroupEntries ==
    /\ pc = "detected"
    /\ detected_attributes # <<>>
    /\ pc' = "grouped"
    /\ group_entries' = get_group_entries(ldif_content, detected_attributes)
    /\ UNCHANGED <<ldif_content, membership_attributes, current_dn, current_type, uid_to_dn,
                   nodes, edges, result, consoleVars, detected_attributes>>

NextDetect == DetectMembershipAttributes \/ GetGroupEntries

SpecDetect == InitDetect /\ [][NextDetect]_vars

\* ------------------------------------------------- the console's commands
\* a line without a colon, as ldapsearch writes at the top of its output
L_comment == <<"#", SP, "extended", SP, "LDIF">>

\* the files on disk
FileA == <<L_dn_u1, L_oc_user, L_uid, L_dn_g1, L_oc_group, L_cn, L_member>>
FileB == <<L_dn_u1, L_oc_user, L_uid_bob>>
FileC == <<L_comment, L_dn_g1, L_oc_group, L_cn, L_member>>
Paths == {"a.ldif", "b.ldif", "c.ldif", "empty.ldif", "missing.ldif", "locked.ldif"}

\* open(file_path).read(): the text, FileNotFoundError or another exception
ReadStatus(path) ==
    CASE path = "missing.ldif" -> "FileNotFoundError"
      [] path = "locked.ldif" -> "Exception"
      [] OTHER -> "ok"
ReadText(path) ==
    CASE path = "a.ldif" -> FileA
      [] path = "b.ldif" -> FileB
      [] path = "c.ldif" -> FileC
      [] OTHER -> <<>>

\* what the user types at the prompt of load, and after set_attrs
PromptTexts == {<<>>, <<"member", "Of">>, <<"member", COMMA>>}
ArgTexts == {<<"member", "Of">>, <<"member", COMMA>>, <<"uid", COMMA, COMMA, "cn">>}
\* what the user types after view_group
GroupArgs == {<<"g1">>, <<"u1">>, <<"zz">>}
\* set_attrs or view_group typed without an argument (args is None)
NoArg == <<"<None>">>

Init ==
    /\ ldif_content = NoContent
    /\ membership_attributes = <<member, memberUid>>
    /\ self_nodes = <<>>
    /\ self_edges = <<>>
    /\ out = "banner"
    /\ exported = NoExport
    /\ parse_completed = FALSE
    /\ detected_attributes = <<>>
    /\ group_entries = <<>>
    /\ cmd = "none"
    /\ pc = "console"
    /\ current_dn = ScanInit.current_dn
    /\ current_type = ScanInit.current_type
    /\ uid_to_dn = ScanInit.uid_to_dn
    /\ nodes = ScanInit.nodes
    /\ edges = ScanInit.edges
    /\ result = [nodes |-> <<>>, edges |-> <<>>]

\* the command loop reads a command and dispatches it
Dispatch(c) == pc = "console" /\ cmd' = c

\* the preview of load_ldif raises: member_lines is read unbound when there is
\* no group entry, and self.membership_attributes[-1] fails on an empty list
PreviewRaises(entries, attrs) ==
    \/ entries = <<>>
    \/ entries[1].members # <<>> /\ attrs = <<>>

\* (mutant) a load that does not find the file forgets the loaded document
LoadLdif_ForgetsDocument ==
    /\ Dispatch("load")
    /\ \E path \in Paths \cup {NoPath}, yes \in BOOLEAN, user_input \in PromptTexts :
         IF path = NoPath
            THEN /\ out' = "usage_load"
                 /\ UNCHANGED <<ldif_content, membership_attributes, detectVars>>
            ELSE IF ReadStatus(path) = "FileNotFoundError"
            THEN /\ out' = "not_found"
                 /\ ldif_content' = NoContent
                 /\ UNCHANGED <<membership_attributes, detectVars>>
            ELSE IF ReadStatus(path) = "Exception"
            THEN /\ out' = "error"
                 /\ UNCHANGED <<ldif_content, membership_attributes, detectVars>>
            ELSE /\ ldif_content' = ReadText(path)
                 /\ detected_attributes' \in detect_membership_attributes(ReadText(path))
                 /\ IF detected_attributes' # <<>>
                    THEN /\ group_entries' = get_group_entries(ReadText(path), detected_attributes')
                         /\ IF PreviewRaises(group_entries', membership_attributes)
                            THEN out' = "error_in_preview" /\ UNCHANGED membership_attributes
                            ELSE /\ membership_attributes' =
                                       IF yes THEN detected_attributes' ELSE SplitComma(Strip(user_input))
                                 /\ out' = "ready"
                    ELSE /\ membership_attributes' = SplitComma(Strip(user_input))
                         /\ out' = "ready"
                         /\ UNCHANGED group_entries
    /\ UNCHANGED <<pc, self_nodes, self_edges, exported, parse_completed, parseVarsLocal>>

\* load <file_path>, with the answers the user gives to its prompts
LoadLdif ==
    /\ Dispatch("load")
    /\ \E path \in Paths \cup {NoPath}, yes \in BOOLEAN, user_input \in PromptTexts :
         IF path = NoPath
            THEN /\ out' = "usage_load"
                 /\ UNCHANGED <<ldif_content, membership_attributes, detectVars>>
            ELSE IF ReadStatus(path) = "FileNotFoundError"
            THEN /\ out' = "not_found"
                 /\ UNCHANGED <<ldif_content, membership_attributes, detectVars>>
            ELSE IF ReadStatus(path) = "Exception"
            THEN /\ out' = "error"
                 /\ UNCHANGED <<ldif_content, membership_attributes, detectVars>>
            ELSE /\ ldif_content' = ReadText(path)
                 /\ detected_attributes' \in detect_membership_attributes(ReadText(path))
                 /\ IF detected_attributes' # <<>>
                    THEN /\ group_entries' = get_group_entries(ReadText(path), detected_attributes')
                         /\ IF PreviewRaises(group_entries', membership_attributes)
                            THEN out' = "error_in_preview" /\ UNCHANGED membership_attributes
                            ELSE /\ membership_attributes' =
                                       IF yes THEN detected_attributes' ELSE SplitComma(Strip(user_input))
                                 /\ out' = "ready"
                    ELSE /\ membership_attributes' = SplitComma(Strip(user_input))
                         /\ out' = "ready"
                         /\ UNCHANGED group_entries
    /\ UNCHANGED <<pc, self_nodes, self_edges, exported, parse_completed, parseVarsLocal>>

\* set_attrs <attributes>
SetMembershipAttributes ==
    /\ Dispatch("set_attrs")
    /\ \E attributes \in ArgTexts \cup {NoArg} :
        IF attributes = NoArg
        THEN out' = "usage_set_attrs" /\ UNCHANGED membership_attributes
        ELSE membership_attributes' = SplitComma(attributes) /\ out' = "attrs_set"
    /\ UNCHANGED <<pc, ldif_content, self_nodes, self_edges, exported, parse_completed,
                   detectVars, parseVarsLocal>>

\* parse
Parse ==
    /\ Dispatch("parse")
    /\ IF ContentMissing(ldif_content)
       THEN out' = "no_file" /\ UNCHANGED <<self_nodes, self_edges, parse_completed>>
       ELSE /\ \E r \in parse_ldif(ldif_content, membership_attributes) :
                    self_nodes' = r.nodes /\ self_edges' = r.edges
            /\ out' = "parsed"
            /\ parse_completed' = TRUE
    /\ UNCHANGED <<pc, ldif_content, membership_attributes, exported, detectVars,
                   parseVarsLocal>>

\* view_nodes
ViewNodes ==
    /\ Dispatch("view_nodes")
    /\ out' = IF self_nodes = <<>> THEN "no_nodes" ELSE "nodes"
    /\ UNCHANGED <<pc, ldif_content, membership_attributes, self_nodes, self_edges, exported,
                   parse_completed, detectVars, parseVarsLocal>>

\* view_edges
ViewEdges ==
    /\ Dispatch("view_edges")
    /\ out' = IF self_edges = <<>> THEN "no_edges" ELSE "edges"
    /\ UNCHANGED <<pc, ldif_content, membership_attributes, self_nodes, self_edges, exported,
                   parse_completed, detectVars, parseVarsLocal>>

\* view_group [<group_dn>]: an IndexError raised in view_group is caught nowhere
\* and ends the process
ViewGroup ==
    /\ Dispatch("view_group")
    /\ \E args \in GroupArgs \cup {NoArg} :
        IF args = NoArg
        THEN out' = "usage_view_group" /\ UNCHANGED pc
        ELSE IF view_group(ldif_content, args) = "IndexError"
        THEN out' = "traceback" /\ pc' = "crashed"
        ELSE out' = view_group(ldif_content, args) /\ UNCHANGED pc
    /\ UNCHANGED <<ldif_content, membership_attributes, self_nodes, self_edges, exported,
                   parse_completed, detectVars, parseVarsLocal>>

\* export [<nodes_file> <edges_file>]: files is the number of names typed
Export ==
    /\ Dispatch("export")
    /\ \E files \in 0..3 :
        IF files \notin {0, 2}
        THEN out' = "usage_export" /\ UNCHANGED exported
        ELSE IF self_nodes = <<>> \/ self_edges = <<>>
        THEN out' = "no_data" /\ UNCHANGED exported
        ELSE /\ exported' = [nodes_file |-> NodesTable(self_nodes), edges_file |-> EdgesTable(self_edges)]
             /\ out' = "saved"
    /\ UNCHANGED <<pc, ldif_content, membership_attributes, self_nodes, self_edges,
                   parse_completed, detectVars, parseVarsLocal>>

\* help
Help ==
    /\ Dispatch("help")
    /\ out' = "help"
    /\ UNCHANGED <<pc, ldif_content, membership_attributes, self_nodes, self_edges, exported,
                   parse_completed, detectVars, parseVarsLocal>>

\* a word that is no command
UnknownCommand ==
    /\ Dispatch("unknown")
    /\ out' = "unknown_command"
    /\ UNCHANGED <<pc, ldif_content, membership_attributes, self_nodes, self_edges, exported,
                   parse_completed, detectVars, parseVarsLocal>>

\* exit: the loop ends
Exit ==
    /\ Dispatch("exit")
    /\ out' = "exiting"
    /\ pc' = "exited"
    /\ UNCHANGED <<ldif_content, membership_attributes, self_nodes, self_edges, exported,
                   parse_completed, detectVars, parseVarsLocal>>

Next ==
    \/ LoadLdif \/ SetMembershipAttributes \/ Parse \/ ViewNodes \/ ViewEdges \/ ViewGroup
    \/ Export \/ Help \/ UnknownCommand \/ Exit

Spec == Init /\ [][Next]_vars

\* ----------------------------------------- the document, read as the spec reads it
\* the attribute name (text before the first colon) of a trimmed line is a
AttrNameIs(line, a) == HasColon(line) /\ SplitHead(line) = a

\* line k of doc, trimmed
LineAt(doc, k) == Strip(doc[k])

\* the dn line that opens the entry line k belongs to; 0 when no dn line precedes
EntryStart(doc, k) ==
    LET S == {j \in 1..k : AttrNameIs(LineAt(doc, j), dnAttr)}
    IN  IF S = {} THEN 0 ELSE CHOOSE j \in S : \A i \in S : i <= j

\* the dn of the entry line k belongs to
EntryDn(doc, k) == Strip(SplitTail(LineAt(doc, EntryStart(doc, k))))

\* the type an objectClass line assigns; NoType for other lines and for no marker
MarkerOf(line) ==
    IF ~AttrNameIs(line, objectClassAttr) THEN NoType
    ELSE IF \E m \in {"inetOrgPerson", "posixAccount"} : Contains(SplitTail(line), <<m>>) THEN "User"
    ELSE IF \E m \in {"groupOfNames", "posixGroup", "groupOfMembers"} : Contains(SplitTail(line), <<m>>)
         THEN "Group"
    ELSE NoType

\* the running type after line k: the last marker since the entry's dn line
RunningType(doc, k) ==
    LET S == {j \in (EntryStart(doc, k) + 1)..k : MarkerOf(LineAt(doc, j)) # NoType}
    IN  IF S = {} THEN NoType ELSE MarkerOf(LineAt(doc, CHOOSE j \in S : \A i \in S : i <= j))

\* the loop has just consumed a line
Consumed == Len(ldif_content') = Len(ldif_content) + 1
\* that line, trimmed, and its number
LastNo == Len(ldif_content')
LastLine == LineAt(ldif_content', LastNo)

\* ---------------------------------------------------------------- claims
\* C1: with memberUid configured, a User node (d, u, User) and a line
\* "memberUid: u" in the entry with dn g give the edge (d, g, "memberOf") in the
\* result, wherever the User entry stands in the document.
C1_MemberUidResolved ==
    (pc = "done" /\ memberUid \in Range(membership_attributes)) =>
        \A n \in Range(result.nodes) : \A k \in 1..Len(ldif_content) :
            ( /\ n[3] = "User"
              /\ EntryStart(ldif_content, k) > 0
              /\ AttrNameIs(LineAt(ldif_content, k), memberUid)
              /\ ValueOf(LineAt(ldif_content, k)) = n[2] )
            => <<n[1], EntryDn(ldif_content, k), "memberOf">> \in Range(result.edges)

\* the nodes C2 describes: one per uid line met under running type User and one
\* per cn line met under running type Group, each with the dn of its entry
C2_Described(doc) ==
    {<<EntryDn(doc, k), ValueOf(LineAt(doc, k)), "User">> :
        k \in {j \in 1..Len(doc) : /\ EntryStart(doc, j) > 0
                                   /\ AttrNameIs(LineAt(doc, j), uidAttr)
                                   /\ RunningType(doc, j - 1) = "User"}}
    \cup
    {<<EntryDn(doc, k), ValueOf(LineAt(doc, k)), "Group">> :
        k \in {j \in 1..Len(doc) : /\ EntryStart(doc, j) > 0
                                   /\ AttrNameIs(LineAt(doc, j), cnAttr)
                                   /\ RunningType(doc, j - 1) = "Group"}}

\* C2: the node set returned by parse is exactly the set of (d, v, User) for the
\* uid lines of the entry with dn d met under running type User and of
\* (d, v, Group) for its cn lines met under running type Group.
C2_NodesExactly == pc = "done" => Range(result.nodes) = C2_Described(ldif_content)

\* C2 restricted to documents whose first line is a dn line (no line outside an entry)
C2_NodesExactlyInEntries ==
    (pc = "done" /\ ldif_content # <<>> /\ EntryStart(ldif_content, 1) = 1)
        => Range(result.nodes) = C2_Described(ldif_content)

\* C3: at every point of the scan of an entry the running type is the type of
\* the most recent marker-matching objectClass line of that entry, and Unknown
\* when there is none since the entry's dn line.
C3_RunningTypeIsLastMarker ==
    (pc = "scan" /\ ldif_content # <<>> /\ EntryStart(ldif_content, Len(ldif_content)) > 0)
        => current_type = RunningType(ldif_content, Len(ldif_content))

\* C3 witness: inside an entry a User marker was overwritten by a Group marker,
\* and a later objectClass line without a marker left Group in place
C3_Witness ==
    /\ pc = "scan"
    /\ Len(ldif_content) = 4
    /\ EntryStart(ldif_content, 4) = 1
    /\ MarkerOf(LineAt(ldif_content, 2)) = "User"
    /\ MarkerOf(LineAt(ldif_content, 3)) = "Group"
    /\ AttrNameIs(LineAt(ldif_content, 4), objectClassAttr)
    /\ MarkerOf(LineAt(ldif_content, 4)) = NoType
    /\ current_type = "Group"

\* the edges the consumed line appended
Appended == SubSeq(edges', Len(edges) + 1, Len(edges'))

\* C4 (as claimed): a line of the entry with dn d whose attribute name is a
\* configured name other than memberUid, with trimmed value v, emits the edge
\* (v, d, "memberOf"); a line whose attribute name is not configured emits none.
C4_EdgePerConfiguredLine ==
    [][ (Consumed /\ EntryStart(ldif_content', LastNo) > 0) =>
          /\ (\E a \in Range(membership_attributes) : a # memberUid /\ AttrNameIs(LastLine, a))
                => <<ValueOf(LastLine), EntryDn(ldif_content', LastNo), "memberOf">> \in Range(Appended)
          /\ (~ \E a \in Range(membership_attributes) : AttrNameIs(LastLine, a))
                => edges' = edges ]_vars

\* the line is taken by classification: a dn line, an objectClass line, a uid
\* line under running type User or a cn line under running type Group
TakenByClassifier(doc, k) ==
    \/ AttrNameIs(LineAt(doc, k), dnAttr)
    \/ AttrNameIs(LineAt(doc, k), objectClassAttr)
    \/ AttrNameIs(LineAt(doc, k), uidAttr) /\ RunningType(doc, k - 1) = "User"
    \/ AttrNameIs(LineAt(doc, k), cnAttr) /\ RunningType(doc, k - 1) = "Group"

\* C4 (amended): a line of the entry with dn d that classification does not
\* take, that begins with a configured name other than memberUid followed by a
\* colon and whose trimmed value v is not empty, emits the edge (v, d,
\* "memberOf"); a line taken by classification, a line with an empty value and
\* a line that begins with no configured name followed by a colon emit none.
C4_EdgePerResolvedLine ==
    [][ (Consumed /\ EntryStart(ldif_content', LastNo) > 0) =>
          LET matching == {a \in Range(membership_attributes) : StartsWith(LastLine, WithColon(a))}
              taken == TakenByClassifier(ldif_content', LastNo)
          IN  /\ (~taken /\ (matching \ {memberUid}) # {} /\ ValueOf(LastLine) # <<>>)
                    => /\ Appended # <<>>
                       /\ \A i \in 1..Len(Appended) :
                            Appended[i] = <<ValueOf(LastLine), EntryDn(ldif_content', LastNo), "memberOf">>
              /\ (taken \/ matching = {} \/ (HasColon(LastLine) /\ ValueOf(LastLine) = <<>>))
                    => edges' = edges ]_vars

\* C4 witness: the member line of a group entry has just produced its edge
C4_Witness ==
    /\ pc = "scan"
    /\ Len(ldif_content) >= 2
    /\ EntryStart(ldif_content, Len(ldif_content)) > 0
    /\ AttrNameIs(LineAt(ldif_content, Len(ldif_content)), member)
    /\ member \in Range(membership_attributes)
    /\ edges # <<>>
    /\ edges[Len(edges)] = <<(<<"u1">>), EntryDn(ldif_content, Len(ldif_content)), "memberOf">>

\* C5: the returned nodes never hold two nodes with the same dn (the dn of an
\* entry) that differ in label or type.
C5_OneNodePerDn ==
    pc = "done" => \A n1, n2 \in Range(result.nodes) : (n1[1] = n2[1] /\ n1[1] # None) => n1 = n2

\* C6: the source of every returned edge (of an entry) is the dn of a returned
\* node.
C6_EdgeSourceIsNode ==
    pc = "done" => \A i \in 1..Len(result.edges) :
        result.edges[i][2] # None => \E n \in Range(result.nodes) : n[1] = result.edges[i][1]

\* C7: a line without a colon and a line with an empty attribute name change
\* neither the running dn nor the running type and emit neither node nor edge.
C7_InertLines ==
    [][ (Consumed /\ (~HasColon(LastLine) \/ AttrNameIs(LastLine, <<>>)))
            => UNCHANGED <<current_dn, current_type, nodes, edges>> ]_vars

\* the names of the detector's vocabulary that are the attribute name of some
\* line of the text (a line is read trimmed, as every scan of the program does)
C8_Present(content) ==
    IF content = NoContent THEN {}
    ELSE {a \in {member, memberUid, uniqueMember, isMemberOf, memberOf} :
            \E k \in 1..Len(content) : AttrNameIs(LineAt(content, k), a)}

\* C8: detect_membership_attributes returns exactly the names of its vocabulary
\* that occur as the attribute name of some line, each once; a name that is a
\* prefix of another is reported only if it occurs itself.
C8_DetectExactly ==
    pc = "detected" =>
        /\ Range(detected_attributes) = C8_Present(ldif_content)
        /\ Len(detected_attributes) = Cardinality(C8_Present(ldif_content))

\* C8 witness: a text with a memberOf line and a memberUid line but no member
\* line; member is not reported
C8_Witness ==
    /\ pc = "detected"
    /\ ldif_content # NoContent
    /\ \E k \in 1..Len(ldif_content) : ldif_content[k] = D_memberOf
    /\ \E k \in 1..Len(ldif_content) : ldif_content[k] = D_memberUid
    /\ \A k \in 1..Len(ldif_content) : ldif_content[k] # D_member
    /\ Range(detected_attributes) = {memberOf, memberUid}

\* C9: once a parse command has completed on a loaded document, export is not
\* refused as 'no parsed data': it writes the two tables for the nodes and
\* edges the console holds.
C9_ExportAfterParse ==
    [][ parse_completed =>
          /\ out' # "no_data"
          /\ out' = "saved" =>
               exported' = [nodes_file |-> NodesTable(self_nodes), edges_file |-> EdgesTable(self_edges)]
      ]_vars

\* the attribute lists the console can hold
ConsoleAttrLists ==
    {<<member, memberUid>>}
    \cup UNION {detect_membership_attributes(ReadText(f)) : f \in Paths}
    \cup {SplitComma(Strip(t)) : t \in PromptTexts \cup ArgTexts}

\* C10: the nodes and edges the console holds are empty or the result of
\* parsing the currently loaded document.
C10_NothingFromOldDocument ==
    pc = "console" =>
        \/ self_nodes = <<>> /\ self_edges = <<>>
        \/ /\ ~ContentMissing(ldif_content)
           /\ \E attrs \in ConsoleAttrLists : \E r \in parse_ldif(ldif_content, attrs) :
                Range(r.nodes) = Range(self_nodes) /\ r.edges = self_edges

\* C11: parse, detect_membership_attributes, get_group_entries and view_group
\* end with a result or a failure message on every loaded document and every
\* argument; no exception escapes to the command loop and ends the process.
C11_NoEscapingException == pc # "crashed"

\* C12: parse with no document loaded is signalled as an error and leaves the
\* stored nodes, edges, document and attribute list unchanged; parse with a
\* loaded document replaces the stored nodes and edges by exactly the result of
\* parsing that document with the current attribute list.
C12_ParseWithoutDocument ==
    [][ cmd' = "parse" =>
          IF ldif_content = NoContent
          THEN /\ out' = "no_file"
               /\ UNCHANGED <<self_nodes, self_edges, ldif_content, membership_attributes>>
          ELSE \E r \in parse_ldif(ldif_content, membership_attributes) :
                    Range(self_nodes') = Range(r.nodes) /\ self_edges' = r.edges ]_vars

C14_DnResetsType ==
    [][ Consumed =>
          /\ AttrNameIs(LastLine, dnAttr) => current_type' = NoType
          /\ ( /\ EntryStart(ldif_content', LastNo) > 0
               /\ RunningType(ldif_content', LastNo) = NoType ) => nodes' = nodes ]_vars

\* C14 witness: a User entry is followed by an entry without objectClass line
\* whose uid line has been read; no node came of it
C14_Witness ==
    /\ pc = "scan"
    /\ Len(ldif_content) = 4
    /\ AttrNameIs(LineAt(ldif_content, 1), dnAttr)
    /\ MarkerOf(LineAt(ldif_content, 2)) = "User"
    /\ AttrNameIs(LineAt(ldif_content, 3), dnAttr)
    /\ AttrNameIs(LineAt(ldif_content, 4), uidAttr)
    /\ current_type = NoType
    /\ nodes = {}

\* the values of the dn lines of a document
DnValues(doc) == {ValueOf(LineAt(doc, k)) : k \in {j \in 1..Len(doc) : AttrNameIs(LineAt(doc, j), dnAttr)}}

\* C15: the dn of every returned node and the target of every returned edge is
\* the value of a dn line of the document; lines before the first dn line give
\* no node and no edge, so none carries an absent dn.
C15_NoNullDn ==
    pc = "done" =>
        /\ \A n \in Range(result.nodes) : n[1] # None /\ n[1] \in DnValues(ldif_content)
        /\ \A i \in 1..Len(result.edges) :
                result.edges[i][2] # None /\ result.edges[i][2] \in DnValues(ldif_content)

\* C16: the edge list is in document order of the lines that produced the edges
\* and is never deduplicated: a line leaves the edges of earlier lines in place
\* and puts its own after them, a resolved membership line of an entry appends
\* its edge once for each time its name stands in the attribute list (also when
\* an equal edge is already there), and the list is returned as it was built.
C16_EdgesInDocumentOrder ==
    [][ /\ Consumed =>
            /\ Len(edges') >= Len(edges)
            /\ SubSeq(edges', 1, Len(edges)) = edges
            /\ ( /\ EntryStart(ldif_content', LastNo) > 0
                 /\ ~TakenByClassifier(ldif_content', LastNo)
                 /\ \E a \in Range(membership_attributes) :
                        a # memberUid /\ StartsWith(LastLine, WithColon(a))
                 /\ ValueOf(LastLine) # <<>> )
               => /\ Len(Appended) = Cardinality({i \in DOMAIN membership_attributes :
                                        StartsWith(LastLine, WithColon(membership_attributes[i]))})
                  /\ \A i \in 1..Len(Appended) :
                        Appended[i] = <<ValueOf(LastLine), EntryDn(ldif_content', LastNo), "memberOf">>
        /\ pc' = "done" => result'.edges = edges ]_vars

\* C16 witness: the same member line stood three times in a group entry and the
\* result holds three equal edges
C16_Witness ==
    /\ pc = "done"
    /\ Len(ldif_content) = 4
    /\ AttrNameIs(LineAt(ldif_content, 1), dnAttr)
    /\ \A k \in 2..4 : ldif_content[k] = L_member
    /\ Len(result.edges) = 3
    /\ \A i \in 1..3 : result.edges[i] = <<(<<"u1">>), EntryDn(ldif_content, 4), "memberOf">>

\* C17: a load command that fails (no path, file not found, or another failure
\* of open or read) leaves the loaded document, the attribute list and the
\* stored nodes and edges unchanged, and the console keeps accepting commands.
C17_FailedLoadChangesNothing ==
    [][ (cmd' = "load" /\ out' \in {"usage_load", "not_found", "error"}) =>
          /\ UNCHANGED <<ldif_content, membership_attributes, self_nodes, self_edges>>
          /\ pc' = "console" ]_vars

\* C17 witness: with a document loaded and parsed, a load has just failed on a
\* file that does not exist
C17_Witness ==
    /\ pc = "console"
    /\ cmd = "load"
    /\ out = "not_found"
    /\ ldif_content = FileA
    /\ self_nodes # <<>>
    /\ self_edges # <<>>

\* C18: the node set returned by parse does not depend on the attribute list: a
\* call on the same document with another list (also one that names uid, cn,
\* objectClass or dn) returns the same set of nodes.
C18_NodesIndependentOfAttributes ==
    [][ pc' = "other" => Range(result'.nodes) = Range(result.nodes) ]_vars

\* C18 witness: a call with the list uid, "", cn has followed a call with another
\* list on a document that gives a node
C18_Witness ==
    /\ pc = "other"
    /\ membership_attributes = <<uidAttr, <<>>, cnAttr>>
    /\ result.nodes # <<>>

\* C19: whenever detect_membership_attributes returns a non-empty list,
\* get_group_entries called with that list returns at least one entry, and the
\* first entry has at least one member value; so member_lines is bound when the
\* preview of load_ldif reads it.
C19_MemberLinesBound ==
    pc = "grouped" =>
        /\ group_entries # <<>>
        /\ group_entries[1].members # <<>>
        /\ ~PreviewRaises(group_entries, membership_attributes)

\* C19 witness: a membership line precedes the first dn line and another one
\* follows it; two entries are returned, the first without a dn
C19_Witness ==
    /\ pc = "grouped"
    /\ Len(group_entries) = 2
    /\ group_entries[1].dn = None
    /\ group_entries[2].dn # None

====
